---- MODULE Spec2Model ----
(***************************************************************************)
(* Model of the windowed fingerprinting engine of src/src/fingerprint.rs   *)
(* (Fingerprinter::new, process_series, matches, duplicates) driven by     *)
(* series built the way src/src/main.rs builds them.                       *)
(*                                                                         *)
(* A record is the pair <<index, raw>> of main.rs ((DateTime<Utc>, f64)):  *)
(* the index is a time in seconds, the raw reading is counted in halves of *)
(* the 1e-4 quantum that main.rs rounds to.  The 64-bit digest of          *)
(* DefaultHasher is scaled down to DigestMod values, so that two different *)
(* value sequences with one digest occur among the explored inputs         *)
(* (<<2, 2>> and <<2, 1, 1>>).                                             *)
(***************************************************************************)
EXTENDS Integers, Sequences, FiniteSets, TLC

\* ---------------------------------------------------------------- bounds
MaxWindow == 3
MaxLen == 3
MaxRepeat == 2
MaxRaw == 2
MaxProbeLen == 3
DigestMod == 32

\* --------------------------------------------------------------- state
VARIABLES
    get_value,        \* Fingerprinter.get_value: which projection was configured
    window_size,      \* Fingerprinter.window_size
    sequence_filter,  \* Fingerprinter.sequence_filter: which predicate was configured
    occurrences,      \* Fingerprinter.occurrences: digest -> sequence of Occurrence
    last_data,        \* the argument of the latest process_series call
    calls,            \* number of process_series calls so far, saturating at 2
    outcome,          \* path the latest process_series call took
    filter_calls,     \* evaluations of sequence_filter in the latest call
    hash_calls,       \* digests computed by the latest process_series call
    ret               \* value returned by the latest matches / duplicates call

vars == <<get_value, window_size, sequence_filter, occurrences, last_data,
          calls, outcome, filter_calls, hash_calls, ret>>

config == <<get_value, window_size, sequence_filter>>

\* ------------------------------------------------------- inputs (main.rs)
RawValues == 1..MaxRaw

\* let start_time = Utc.ymd(2020, 11, 1).and_hms(0, 0, 0), in seconds
start_time == 5

RECURSIVE SeqsUpTo(_, _)
SeqsUpTo(S, n) ==
    IF n = 0 THEN {<<>>}
    ELSE LET shorter == SeqsUpTo(S, n - 1)
         IN  shorter \cup {Append(s, x) : s \in {t \in shorter : Len(t) = n - 1}, x \in S}

\* raw readings whose values are 1,2,3,1,2,3,9 under the identity projection
ScenarioA == <<1, 2, 3, 1, 2, 3, 9>>

\* random_data.extend(random_data.clone())
Repeated == {S \o S : S \in SeqsUpTo(RawValues, MaxRepeat)}

RawSeries == SeqsUpTo(RawValues, MaxLen) \cup Repeated \cup {ScenarioA}

\* main.rs builds a series as (start_time + x seconds, reading x)
Series(raws) == [x \in 1..Len(raws) |-> <<start_time + (x - 1), raws[x]>>]

Probes == SeqsUpTo({1, 2}, MaxProbeLen) \cup {<<1, 2, 3>>, <<2, 3, 9>>}

\* ----------------------------------------------------------- projections
\* |&(i, _)| i
get_index(d) == d[1]

\* the Metadata projection is any fn(&Data) -> Metadata (main.rs passes
\* |_| ()); here it hands on the raw reading, so that the metadata of the
\* first and of the last record of a window can differ
get_meta(d) == d[2]

\* "identity": |&(_, v)| v ; "round": |&(_, v)| (v * 10_000.0).round() as i64,
\* the reading being d[2] halves of 1e-4 (round goes half away from zero)
project_value(d) ==
    IF get_value = "identity" THEN d[2] ELSE (d[2] + 1) \div 2

accepts_always(values) == TRUE

\* the filter is any fn(&[Value]) -> bool: "all" is |_| true of main.rs,
\* "none" rejects every window, "varying" rejects constant windows
accepts(values) ==
    CASE sequence_filter = "all" -> TRUE
      [] sequence_filter = "none" -> FALSE
      [] OTHER -> \E i, j \in 1..Len(values) : values[i] # values[j]

\* ---------------------------------------------------------------- digest
RECURSIVE HashFrom(_, _, _)
HashFrom(h, values, i) ==
    IF i > Len(values) THEN h
    ELSE HashFrom((h * 3 + values[i]) % DigestMod, values, i + 1)

\* order-sensitive fold of the hasher state over the slice, then finish()
hash_sequence(values) == HashFrom(1, values, 1)

\* ------------------------------------------------------- process_series
EmptyIndex == [d \in {} |-> <<>>]

reset_index_kept(old) == old

\* self.occurrences = HashMap::new()
reset_index(old) == EmptyIndex

\* data.len() < self.window_size
short_input(data) == Len(data) < window_size

window_count_short(n) == n - window_size

\* upper end of 0usize..(data.len() - self.window_size + 1)
window_count(n) == n - window_size + 1

new_occurrence_first_only(first_record, last_record) ==
    [start_index |-> get_index(first_record),
     start_meta  |-> get_meta(first_record),
     end_index   |-> get_index(first_record),
     end_meta    |-> get_meta(first_record)]

new_occurrence(first_record, last_record) ==
    [start_index |-> get_index(first_record),
     start_meta  |-> get_meta(first_record),
     end_index   |-> get_index(last_record),
     end_meta    |-> get_meta(last_record)]

push_front(list, o) == <<o>> \o list

\* other_occurrences.push(...)
push(list, o) == Append(list, o)

\* self.occurrences.entry(digest).or_insert(vec![])
entry_or_insert(occ, digest) ==
    [d \in DOMAIN occ \cup {digest} |-> IF d \in DOMAIN occ THEN occ[d] ELSE <<>>]

\* one iteration of the loop; st carries the index, the two counters and
\* whether an index-out-of-range panic has unwound the call
ScanWindow(st, data, values, w_start) ==
    LET w_end    == w_start + window_size
        w_data   == SubSeq(data, w_start + 1, w_end)
        w_values == SubSeq(values, w_start + 1, w_end)
        counted  == [st EXCEPT !.filter_calls = @ + 1]
    IN  IF ~accepts(w_values) THEN counted
        ELSE LET digest   == hash_sequence(w_values)
                 inserted == [counted EXCEPT !.hash_calls = @ + 1,
                                             !.occurrences = entry_or_insert(@, digest)]
             IN  IF Len(w_data) = 0
                 THEN [inserted EXCEPT !.panicked = TRUE]
                 ELSE [inserted EXCEPT !.occurrences[digest] =
                           push(@, new_occurrence(w_data[1], w_data[Len(w_data)]))]

RECURSIVE ScanLoop(_, _, _, _, _)
ScanLoop(st, data, values, w_start, w_limit) ==
    IF w_start >= w_limit \/ st.panicked THEN st
    ELSE ScanLoop(ScanWindow(st, data, values, w_start), data, values, w_start + 1, w_limit)

Scan(old, data) ==
    LET values == [x \in 1..Len(data) |-> project_value(data[x])]
        st0    == [occurrences |-> reset_index(old), filter_calls |-> 0,
                   hash_calls |-> 0, panicked |-> FALSE]
    IN  ScanLoop(st0, data, values, 0, window_count(Len(data)))

NoRet == [op |-> "none"]

ProcessSeries(data) ==
    /\ outcome # "panic"
    /\ last_data' = data
    /\ calls' = IF calls < 2 THEN calls + 1 ELSE calls
    /\ ret' = NoRet
    /\ IF short_input(data)
       THEN /\ outcome' = "no_op"
            /\ filter_calls' = 0
            /\ hash_calls' = 0
            /\ UNCHANGED occurrences
       ELSE LET st == Scan(occurrences, data)
            IN  /\ occurrences' = st.occurrences
                /\ filter_calls' = st.filter_calls
                /\ hash_calls' = st.hash_calls
                /\ outcome' = IF st.panicked THEN "panic" ELSE "scanned"
    /\ UNCHANGED config

\* ---------------------------------------------------------------- matches
matches(occ, sequence) ==
    LET digest == hash_sequence(sequence)
    IN  IF digest \in DOMAIN occ
        THEN [op |-> "matches", probe |-> sequence, found |-> TRUE, list |-> occ[digest]]
        ELSE [op |-> "matches", probe |-> sequence, found |-> FALSE, list |-> <<>>]

Matches(sequence) ==
    /\ outcome # "panic"
    /\ ret' = matches(occurrences, sequence)
    /\ UNCHANGED <<config, occurrences, last_data, calls, outcome, filter_calls, hash_calls>>

\* ------------------------------------------------------------- duplicates
duplicates_nonempty(occ) == {occ[d] : d \in {e \in DOMAIN occ : Len(occ[e]) > 0}}

\* self.occurrences.values().filter(|v| v.len() > 1)
duplicates(occ) == {occ[d] : d \in {e \in DOMAIN occ : Len(occ[e]) > 1}}

Duplicates ==
    /\ outcome # "panic"
    /\ ret' = [op |-> "duplicates", groups |-> duplicates(occurrences)]
    /\ UNCHANGED <<config, occurrences, last_data, calls, outcome, filter_calls, hash_calls>>

\* ------------------------------------------------------------------ spec
\* Fingerprinter::new stores its arguments unchecked and an empty HashMap
Init ==
    /\ get_value \in {"identity", "round"}
    /\ window_size \in 0..MaxWindow
    /\ sequence_filter \in {"all", "none", "varying"}
    /\ occurrences = EmptyIndex
    /\ last_data = <<>>
    /\ calls = 0
    /\ outcome = "new"
    /\ filter_calls = 0
    /\ hash_calls = 0
    /\ ret = NoRet

Next ==
    \/ \E raws \in RawSeries : ProcessSeries(Series(raws))
    \/ \E sequence \in Probes : Matches(sequence)
    \/ Duplicates

Spec == Init /\ [][Next]_vars

\* ------------------------------------------------ vocabulary of the claims
\* start offsets of the candidate windows of a series
Offsets(data) == 0..(Len(data) - window_size)

\* projected values of the window starting at offset w
WindowValues(data, w) == [i \in 1..window_size |-> project_value(data[w + i])]

\* offsets of the windows the configured filter accepts
Accepted(data) == {w \in Offsets(data) : accepts(WindowValues(data, w))}

\* positions <<digest, i>> of all Occurrences held by an index
Entries(occ) == UNION {{<<d, i>> : i \in 1..Len(occ[d])} : d \in DOMAIN occ}

\* the Occurrence the window at offset w of a series stands for
WindowOccurrence(data, w) ==
    [start_index |-> get_index(data[w + 1]),
     start_meta  |-> get_meta(data[w + 1]),
     end_index   |-> get_index(data[w + window_size]),
     end_meta    |-> get_meta(data[w + window_size])]

Increasing(list) ==
    \A i, j \in 1..Len(list) : i < j => list[i].start_index < list[j].start_index

LastWasLong == calls > 0 /\ Len(last_data) >= window_size

IsScenarioA ==
    /\ calls > 0
    /\ last_data = Series(ScenarioA)
    /\ window_size = 3
    /\ get_value = "identity"
    /\ sequence_filter = "all"

\* the values of the last series are a block of `half` values written twice
IsRepeated(half) ==
    /\ Len(last_data) = 2 * half
    /\ \A i \in 1..half : project_value(last_data[i]) = project_value(last_data[i + half])

\* ------------------------------------------------------------------ claims

\* C1: after process_series on a series shorter than window_size the
\* occurrence index is empty, whatever an earlier call left in it:
\* duplicates() yields nothing and matches reports not-found.
C1_ShortInputEmptiesIndex ==
    (calls > 0 /\ Len(last_data) < window_size) =>
        /\ DOMAIN occurrences = {}
        /\ duplicates(occurrences) = {}
        /\ (ret.op = "matches" => ~ret.found)

\* C2: when the last process_series call had at least window_size >= 1
\* records, the index holds exactly one Occurrence per accepted window of
\* that series and nothing of an earlier series.
C2_IndexIsLastSeries ==
    (LastWasLong /\ window_size >= 1) =>
        /\ Cardinality(Entries(occurrences)) = Cardinality(Accepted(last_data))
        /\ {occurrences[e[1]][e[2]].start_index : e \in Entries(occurrences)}
               = {get_index(last_data[w + 1]) : w \in Accepted(last_data)}

C2_Witness ==
    /\ LastWasLong
    /\ window_size >= 1
    /\ calls = 2
    /\ sequence_filter = "varying"
    /\ Cardinality(Accepted(last_data)) >= 2
    /\ Accepted(last_data) # Offsets(last_data)

\* C3: with a filter that accepts every window, a series of n >= window_size
\* >= 1 records gets exactly n - window_size + 1 filter evaluations and
\* exactly that many Occurrences over all digest groups.
C3_WindowCount ==
    (LastWasLong /\ window_size >= 1 /\ sequence_filter = "all") =>
        /\ filter_calls = Len(last_data) - window_size + 1
        /\ Cardinality(Entries(occurrences)) = Len(last_data) - window_size + 1

C3_Witness ==
    /\ LastWasLong
    /\ sequence_filter = "all"
    /\ window_size = 3
    /\ Len(last_data) = 7
    /\ filter_calls = 5

\* C4: duplicates() yields exactly the groups of the current index with more
\* than one Occurrence, each as its full list, and no singleton; for the
\* series 1,2,3,1,2,3,9 with window_size 3, identity projection and an
\* always-true filter that is the single group of the windows at offsets 0, 3.
C4_DuplicatesAreRepeatedGroups ==
    ret.op = "duplicates" =>
        /\ \A g \in ret.groups :
               Len(g) > 1 /\ \E d \in DOMAIN occurrences : occurrences[d] = g
        /\ \A d \in DOMAIN occurrences :
               Len(occurrences[d]) > 1 => occurrences[d] \in ret.groups
        /\ IsScenarioA =>
               ret.groups =
                   {<< [start_index |-> start_time, start_meta |-> 1,
                        end_index |-> start_time + 2, end_meta |-> 3],
                       [start_index |-> start_time + 3, start_meta |-> 1,
                        end_index |-> start_time + 5, end_meta |-> 3] >>}

C4_Witness ==
    /\ ret.op = "duplicates"
    /\ IsScenarioA
    /\ Cardinality(DOMAIN occurrences) = 4
    /\ Cardinality(ret.groups) = 1

\* C5: with window_size = 0 every process_series call fails with an
\* InvalidConfiguration condition and the scan never runs.
C5_ZeroWindowRejected ==
    (window_size = 0 /\ calls > 0) =>
        /\ outcome = "InvalidConfiguration"
        /\ filter_calls = 0
        /\ hash_calls = 0

\* C6: a window the filter rejects is neither hashed nor recorded; with a
\* filter that rejects every window the index stays empty after any calls,
\* duplicates() yields nothing and matches reports not-found.
C6_RejectedWindowsLeaveNoTrace ==
    /\ outcome = "scanned" => hash_calls = Cardinality(Accepted(last_data))
    /\ sequence_filter = "none" =>
           /\ DOMAIN occurrences = {}
           /\ hash_calls = 0
           /\ (ret.op = "matches" => ~ret.found)
           /\ (ret.op = "duplicates" => ret.groups = {})

C6_Witness ==
    /\ sequence_filter = "none"
    /\ calls = 2
    /\ outcome = "scanned"
    /\ filter_calls >= 2
    /\ ret.op = "matches"

\* C7: after processing a series whose values are a block S written twice,
\* Len(S) >= window_size >= 1, every window accepted, duplicates() holds a
\* group with two Occurrences whose start_index differ by at least Len(S).
C7_RepeatedSeriesHasDuplicate ==
    \A half \in 1..Len(last_data) :
        (LastWasLong /\ window_size >= 1 /\ half >= window_size
             /\ sequence_filter = "all" /\ IsRepeated(half)) =>
            \E g \in duplicates(occurrences) : \E i, j \in 1..Len(g) :
                g[j].start_index - g[i].start_index >= half

C7_Witness ==
    /\ LastWasLong
    /\ window_size = 2
    /\ sequence_filter = "all"
    /\ get_value = "identity"
    /\ IsRepeated(2)
    /\ last_data[1][2] # last_data[2][2]

\* C8: within every digest group the Occurrences stand in scan order, the
\* earlier entry having the strictly smaller window start; the same holds
\* for the lists handed out by matches and duplicates.
C8_ScanOrderWithinGroup ==
    /\ \A d \in DOMAIN occurrences : Increasing(occurrences[d])
    /\ (ret.op = "matches" /\ ret.found) => Increasing(ret.list)
    /\ ret.op = "duplicates" => \A g \in ret.groups : Increasing(g)

C8_Witness ==
    /\ ret.op = "matches"
    /\ ret.found
    /\ Len(ret.list) >= 3
    /\ Cardinality(DOMAIN occurrences) >= 2

\* C9: no digest of the index ever maps to an empty list; matches reports
\* not-found exactly when the probe's digest is absent, and a found result
\* has at least one Occurrence.
C9_NoEmptyGroup ==
    /\ \A d \in DOMAIN occurrences : Len(occurrences[d]) >= 1
    /\ ret.op = "matches" =>
           /\ ret.found <=> hash_sequence(ret.probe) \in DOMAIN occurrences
           /\ ret.found => Len(ret.list) >= 1

\* C10: the Occurrence recorded for the window at offset w carries
\* get_index / get_meta of data[w] and of data[w + window_size - 1] and is
\* stored under the digest of the value slice [w, w + window_size).
C10_OccurrenceOfWindow ==
    outcome = "scanned" =>
        /\ \A e \in Entries(occurrences) : \E w \in Accepted(last_data) :
               /\ occurrences[e[1]][e[2]] = WindowOccurrence(last_data, w)
               /\ e[1] = hash_sequence(WindowValues(last_data, w))
        /\ \A w \in Accepted(last_data) :
               LET d == hash_sequence(WindowValues(last_data, w))
               IN  /\ d \in DOMAIN occurrences
                   /\ \E i \in 1..Len(occurrences[d]) :
                          occurrences[d][i] = WindowOccurrence(last_data, w)

C10_Witness ==
    /\ outcome = "scanned"
    /\ window_size >= 2
    /\ get_value = "round"
    /\ \E e \in Entries(occurrences) :
           occurrences[e[1]][e[2]].start_meta # occurrences[e[1]][e[2]].end_meta

====
